---- MODULE Spec2Model ----
(***************************************************************************)
(* Kyra backend: the chat route (routes/chat.js), the scan route           *)
(* (routes/scan.js), the single-file /kyra endpoint, the memory service    *)
(* (services/memory.js) and the two askKyra variants (services/openai.js). *)
(*                                                                         *)
(* JavaScript strings are modelled as sequences of symbols: "" is <<>>,    *)
(* a template literal is the concatenation of its pieces, and slice takes  *)
(* a prefix.  Every await of a handler is one action: the action takes the *)
(* outcome of the pending external call (a value, an error result or a     *)
(* raised exception) and runs the handler up to its next await.            *)
(***************************************************************************)
EXTENDS Integers, Sequences, FiniteSets, TLC

\* ---------------------------------------------------------------- bounds
\* Number of chat exchanges already in the store when the requests start.
MaxHist == 5

\* Concurrent requests in flight.
Requests == {1, 2}

\* ------------------------------------------------------------- constants
\* .limit(8) of getMemory
Limit == 8

\* reply.slice(0, 500) of the /kyra endpoint
SummaryLen == 500

\* .slice(0, 4000) of fetchWebsite
ExcerptLen == 4000

\* --------------------------------------------------------------- values
Undefined == <<"<undefined>">>
Null == <<"<null>">>

\* const { user = "Mohit", message } = req.body
DefaultUser == <<"Mohit">>

OtherUser == <<"Asha">>
Users == {DefaultUser, OtherUser}

\* Mutant of Falsy: a check for a missing field only, as message === undefined.
Falsy_missingOnly(x) == x = Undefined

\* !x for the string-or-missing values a request body carries
Falsy(x) == x = Undefined \/ x = Null \/ x = <<>>

Min(a, b) == IF a < b THEN a ELSE b

RECURSIVE Reverse(_)
\* Array.prototype.reverse
Reverse(s) == IF s = <<>> THEN <<>> ELSE Reverse(Tail(s)) \o <<Head(s)>>

\* String.prototype.slice(0, n)
Slice(s, n) == SubSeq(s, 1, Min(Len(s), n))

\* ------------------------------------------------------ inputs (bounded)
MessageInputs == {Undefined, <<>>, <<"m1">>}
UserInputs == {Undefined, DefaultUser, OtherUser}
UrlInputs == {Undefined, <<>>, <<"http://site">>}
Replies == {<<"r1">>}
Pages == {<<"page", "\n", " ", "text">>}

ChatBodies == {[user |-> u, message |-> m] : u \in UserInputs, m \in MessageInputs}
ScanBodies == {[url |-> u] : u \in UrlInputs}
KyraBodies == {[message |-> m] : m \in MessageInputs}

\* ------------------------------------------------------------- variables
VARIABLES
  store,        \* table "memories": rows in insertion order
  clock,        \* the store's clock, source of created_at
  kyra_memory,  \* table "kyra_memory" of the /kyra endpoint
  req,          \* per request: position in its handler and its locals
  ask,          \* last direct call of an askKyra variant (SpecAsk only)
  fetched       \* last page given to fetchWebsite directly (SpecFetch only)

vars == <<store, clock, kyra_memory, req, ask, fetched>>

\* ------------------------------------------------------- services/memory
\* Mutant of saveMemoryRows: the reply is written before the input.
saveMemoryRows_replyFirst(user, input, reply, now) ==
  << [user |-> user, role |-> "assistant", content |-> reply, created_at |-> now],
     [user |-> user, role |-> "user", content |-> input, created_at |-> now] >>

\* The two rows of saveMemory's single insert; created_at is not supplied by
\* the code, the store stamps both rows of the statement with the same time.
saveMemoryRows(user, input, reply, now) ==
  << [user |-> user, role |-> "user", content |-> input, created_at |-> now],
     [user |-> user, role |-> "assistant", content |-> reply, created_at |-> now] >>

\* .eq("user", user): indices of the user's rows among the first n rows
\* Mutant of UserRows: the filter on the user is forgotten.
UserRows_anyUser(st, n, user) == 1..n

UserRows(st, n, user) == {i \in 1..n : st[i].user = user}

Newest(st, S) == {i \in S : \A j \in S : st[j].created_at <= st[i].created_at}

RECURSIVE DescOrders(_, _, _)
\* .order("created_at", {ascending: false}).limit(k): every list of the first
\* k rows of S the store may return; rows with equal created_at come in
\* either order.
DescOrders(st, S, k) ==
  IF S = {} \/ k = 0 THEN {<<>>}
  ELSE UNION { {<<i>> \o t : t \in DescOrders(st, S \ {i}, k - 1)} : i \in Newest(st, S) }

\* The query of getMemory: the possible values of data, as indices into the
\* store.
SelectNewest(st, user) == DescOrders(st, UserRows(st, Len(st), user), Limit)

\* .select("role, content")
Project(st, idx) == [i \in 1..Len(idx) |-> [role |-> st[idx[i]].role, content |-> st[idx[i]].content]]

\* Mutant of getMemoryRows: the reverse is forgotten.
getMemoryRows_noReverse(data) == data

\* return data ? data.reverse() : []   (data given as store indices)
getMemoryRows(data) == Reverse(data)

\* ------------------------------------------------------- services/openai
\* System prompt of the askKyra the routes are written against (memory is a
\* list of {role, content}).
SystemPrompt(user) ==
  <<"\nYou are KYRA, a highly intelligent AI assistant for ">> \o user
    \o <<".\nBehave like Jarvis.\nExplain reasoning step by step.\nAct as mentor, strategist, and problem solver.\nNever claim to take actions.\n">>

\* Mutant of askKyra: the new input is placed before the memory window.
askKyra_inputBeforeMemory(user, message, memory) ==
  <<[role |-> "system", content |-> SystemPrompt(user)]>>
    \o <<[role |-> "user", content |-> message]>>
    \o memory

\* messages: [ {role: "system", ...}, ...memory, {role: "user", content: message} ]
askKyra(user, message, memory) ==
  <<[role |-> "system", content |-> SystemPrompt(user)]>>
    \o memory
    \o <<[role |-> "user", content |-> message]>>

\* System prompt of the first askKyra variant.
SystemPromptFirst(user) ==
  <<"\nYou are KYRA, a friendly, intelligent AI assistant.\nUser name: ">> \o user
    \o <<"\nBehave like Jarvis.\nExplain decisions clearly.\nThink step by step.\nAct as mentor + strategist.\nNever claim real-world actions.\n">>

\* A {role, content} object used where a string is expected: what goes on the
\* wire is the object itself, written here as its serialisation.
ObjectContent(m) == <<"{role:", m.role, ",content:">> \o m.content \o <<"}">>

\* memory.map(m => ({ role: "user", content: m }))
MapFirst(memory) == [i \in 1..Len(memory) |-> [role |-> "user", content |-> ObjectContent(memory[i])]]

\* messages of the first variant
askKyraFirst(user, message, memory) ==
  <<[role |-> "system", content |-> SystemPromptFirst(user)]>>
    \o MapFirst(memory)
    \o <<[role |-> "user", content |-> message]>>

\* What openai.chat.completions.create can come back with: the call raises
\* (transport or API failure), or resolves to a response body.
ChoiceLists ==
  {<<>>} \cup {<<[message |-> [content |-> c]]>> : c \in Replies \cup {Null}}
ApiResults ==
  {[raised |-> TRUE, choices |-> <<>>]} \cup {[raised |-> FALSE, choices |-> ch] : ch \in ChoiceLists}

\* return completion.choices[0].message.content: raises when the awaited call
\* raised, and when choices[0] is undefined (TypeError).
askKyraRaises(res) == res.raised \/ Len(res.choices) = 0
askKyraReturn(res) == res.choices[1].message.content

\* --------------------------------------------------- utils/fetchWebsite
Whitespace == {" ", "\n", "\t"}

\* Mutant of CollapseWs: only runs of the space character are collapsed, as
\* with / +/g.
CollapseWs_spacesOnly(t) ==
  LET Starts(i) == ~(t[i] = " " /\ i > 1 /\ t[i - 1] = " ")
      kept == SelectSeq([i \in 1..Len(t) |-> i], Starts)
  IN  [j \in 1..Len(kept) |-> t[kept[j]]]

\* .replace(/\s+/g, " "): a character is kept unless it is whitespace that
\* continues a run, and the whitespace that starts a run becomes one space.
CollapseWs(t) ==
  LET Starts(i) == ~(t[i] \in Whitespace /\ i > 1 /\ t[i - 1] \in Whitespace)
      kept == SelectSeq([i \in 1..Len(t) |-> i], Starts)
  IN  [j \in 1..Len(kept) |-> IF t[kept[j]] \in Whitespace THEN " " ELSE t[kept[j]]]

\* $("body").text().replace(/\s+/g, " ").slice(0, 4000), on the body text
fetchWebsite(bodyText) == Slice(CollapseWs(bodyText), ExcerptLen)

\* ------------------------------------------------------------- responses
Response(status, body) == [status |-> status, body |-> body]

\* res.status(400).json({ error: "Message required" })
MessageRequired == Response(400, [error |-> "Message required"])
\* Mutant of ChatFailed: the error text of the single-file endpoint.
ChatFailed_coreText == Response(500, [error |-> "Kyra core failed"])

\* res.status(500).json({ error: "Kyra thinking failed" })
ChatFailed == Response(500, [error |-> "Kyra thinking failed"])
\* res.json({ reply })
ChatReply(reply) == Response(200, [reply |-> reply])

\* res.status(400).json({ error: "URL required" })
UrlRequired == Response(400, [error |-> "URL required"])
\* res.status(500).json({ error: "Website scan failed" })
ScanFailed == Response(500, [error |-> "Website scan failed"])
\* res.json({ analysis })
ScanReply(analysis) == Response(200, [analysis |-> analysis])

\* res.status(400).json({ error: "No message provided" })
KyraNoMessage == Response(400, [error |-> "No message provided"])
\* res.status(500).json({ error: "Kyra core failed" })
KyraFailed == Response(500, [error |-> "Kyra core failed"])

\* ---------------------------------------------------------- request state
NoBody == [none |-> TRUE]

IdleReq ==
  [ kind |-> "none", pc |-> "idle", body |-> NoBody,
    user |-> Undefined, message |-> Undefined,
    memOut |-> "none", memory |-> <<>>, sel |-> <<>>, seen |-> 0,
    messages |-> <<>>, apiOut |-> "none", reply |-> Undefined,
    saveOut |-> "none", saved |-> "none", fetchOut |-> "none",
    resp |-> <<>>, calls |-> <<>>,
    stamp |-> 0, after |-> {} ]

\* How a completion result is classified in the request's record.
ApiOut(res) ==
  IF res.raised THEN "raised"
  ELSE IF Len(res.choices) = 0 THEN "nochoices"
  ELSE IF res.choices[1].message.content = Null THEN "nocontent"
  ELSE "ok"

\* The arguments of a call that has returned go out of scope.
Returned(q) == [q EXCEPT !.memory = <<>>, !.sel = <<>>, !.seen = 0, !.messages = <<>>]

\* Mutant of Send: the handler returns without sending anything.
Send_nothing(q, response) ==
  [Returned(q) EXCEPT !.pc = "done", !.user = Undefined, !.message = Undefined]

\* The handler sends a response and returns: its locals are gone.
Send(q, response) ==
  [Returned(q) EXCEPT !.pc = "done", !.resp = @ \o <<response>>,
                      !.user = Undefined, !.message = Undefined]

\* The requests whose response has been sent.
Answered == {o \in Requests : req[o].pc = "done" /\ req[o].resp # <<>>}

\* Requests are numbered in their order of arrival.
Arrives(r) ==
  /\ req[r].pc = "idle"
  /\ \A o \in Requests : o < r => req[o].pc # "idle"

\* ------------------------------------------------------------ routes/chat
\* Mutant of ChatStart: the query of getMemory is issued before the message
\* is validated.
ChatStart_queryFirst(r, b) ==
  /\ Arrives(r)
  /\ LET q == [req[r] EXCEPT !.kind = "chat", !.body = b, !.after = Answered,
                             !.calls = @ \o <<"select">>]
         user == IF b.user = Undefined THEN DefaultUser ELSE b.user
     IN  IF Falsy(b.message)
         THEN req' = [req EXCEPT ![r] = Send(q, MessageRequired)]
         ELSE req' = [req EXCEPT ![r] =
                        [q EXCEPT !.user = user, !.message = b.message, !.pc = "getMemory"]]
  /\ UNCHANGED <<store, clock, kyra_memory, ask, fetched>>

\* Handler entry up to its first await: destructure the body, validate, and
\* issue the query of getMemory.
ChatStart(r, b) ==
  /\ Arrives(r)
  /\ LET q == [req[r] EXCEPT !.kind = "chat", !.body = b, !.after = Answered]
         user == IF b.user = Undefined THEN DefaultUser ELSE b.user
     IN  IF Falsy(b.message)
         THEN req' = [req EXCEPT ![r] = Send(q, MessageRequired)]
         ELSE req' = [req EXCEPT ![r] =
                        [q EXCEPT !.user = user, !.message = b.message,
                                  !.pc = "getMemory", !.calls = @ \o <<"select">>]]
  /\ UNCHANGED <<store, clock, kyra_memory, ask, fetched>>

\* The rest of getMemory with the query's outcome, then askKyra up to its
\* await: build the messages and issue the completion call.
ChatAsk(q, out, data, seen) ==
  [q EXCEPT !.memOut = out, !.sel = getMemoryRows(data), !.seen = seen,
            !.memory = Project(store, getMemoryRows(data)),
            !.messages = askKyra(q.user, q.message, Project(store, getMemoryRows(data))),
            !.pc = "askKyra", !.calls = @ \o <<"completion">>]

\* Mutant of ChatGetMemoryDone: a query that raised is issued again.
ChatGetMemoryDone_retry(r) ==
  /\ req[r].pc = "getMemory"
  /\ \/ \E data \in SelectNewest(store, req[r].user) :
          req' = [req EXCEPT ![r] = ChatAsk(req[r], "data", data, Len(store))]
     \/ req' = [req EXCEPT ![r] = ChatAsk(req[r], "error", <<>>, Len(store))]
     \/ /\ Len(req[r].calls) < 2
        /\ req' = [req EXCEPT ![r] = [@ EXCEPT !.calls = @ \o <<"select">>]]
     \/ /\ Len(req[r].calls) >= 2
        /\ req' = [req EXCEPT ![r] = Send([req[r] EXCEPT !.memOut = "raise"], ChatFailed)]
  /\ UNCHANGED <<store, clock, kyra_memory, ask, fetched>>

\* await getMemory(user) resolves or rejects.
ChatGetMemoryDone(r) ==
  /\ req[r].pc = "getMemory"
  /\ \/ \E data \in SelectNewest(store, req[r].user) :
          req' = [req EXCEPT ![r] = ChatAsk(req[r], "data", data, Len(store))]
     \/ \* the query resolves to {data: null, error}: getMemory returns []
        req' = [req EXCEPT ![r] = ChatAsk(req[r], "error", <<>>, Len(store))]
     \/ \* the query raises: caught by the route
        req' = [req EXCEPT ![r] = Send([req[r] EXCEPT !.memOut = "raise"], ChatFailed)]
  /\ UNCHANGED <<store, clock, kyra_memory, ask, fetched>>

\* Mutant of ChatAskKyraDone: the reply is sent before the exchange is saved.
ChatAskKyraDone_replyBeforeSave(r) ==
  /\ req[r].pc = "askKyra"
  /\ req[r].kind = "chat"
  /\ \E res \in ApiResults :
       LET q == [req[r] EXCEPT !.apiOut = ApiOut(res)]
       IN  IF askKyraRaises(res)
           THEN req' = [req EXCEPT ![r] = Send(q, ChatFailed)]
           ELSE req' = [req EXCEPT ![r] =
                          Send([q EXCEPT !.reply = askKyraReturn(res)], ChatReply(askKyraReturn(res)))]
  /\ UNCHANGED <<store, clock, kyra_memory, ask, fetched>>

\* await askKyra(...) resolves or rejects; on a reply, saveMemory issues its
\* insert.
ChatAskKyraDone(r) ==
  /\ req[r].pc = "askKyra"
  /\ req[r].kind = "chat"
  /\ \E res \in ApiResults :
       LET q == [req[r] EXCEPT !.apiOut = ApiOut(res)]
       IN  IF askKyraRaises(res)
           THEN req' = [req EXCEPT ![r] = Send(q, ChatFailed)]
           ELSE req' = [req EXCEPT ![r] =
                          [Returned(q) EXCEPT !.reply = askKyraReturn(res), !.pc = "saveMemory",
                                              !.calls = @ \o <<"insert">>]]
  /\ UNCHANGED <<store, clock, kyra_memory, ask, fetched>>

\* What await saveMemory(...) gives the route: saveMemory awaits the insert and
\* returns nothing, so it rejects when the insert raised and resolves to
\* undefined otherwise, whether the insert's result is a success or an error.
saveMemoryResult(insert) == IF insert = "raise" THEN "rejected" ELSE "undefined"

\* The route after await saveMemory(...): res.json({ reply }), or the catch
\* block when saveMemory rejected.
ChatAfterSave(q, insert) ==
  LET done == [q EXCEPT !.saveOut = insert, !.saved = saveMemoryResult(insert)]
  IN  IF done.saved = "rejected" THEN Send(done, ChatFailed) ELSE Send(done, ChatReply(q.reply))

\* Mutant of ChatSaveMemoryDone: the two turns are written by two insert
\* statements, one after the other.
ChatSaveMemoryDone_twoInserts(r) ==
  /\ req[r].pc = "saveMemory"
  /\ LET q == req[r]
         rows == saveMemoryRows(q.user, q.message, q.reply, IF q.stamp = 0 THEN clock ELSE q.stamp)
     IN  \/ /\ q.stamp = 0
            /\ store' = Append(store, rows[1])
            /\ clock' = clock + 1
            /\ req' = [req EXCEPT ![r] = [q EXCEPT !.stamp = clock]]
         \/ /\ q.stamp # 0
            /\ store' = Append(store, rows[2])
            /\ clock' = clock
            /\ req' = [req EXCEPT ![r] = ChatAfterSave(q, "ok")]
         \/ /\ q.stamp = 0
            /\ req' = [req EXCEPT ![r] = ChatAfterSave(q, "error")]
            /\ UNCHANGED <<store, clock>>
         \/ /\ q.stamp = 0
            /\ req' = [req EXCEPT ![r] = ChatAfterSave(q, "raise")]
            /\ UNCHANGED <<store, clock>>
  /\ UNCHANGED <<kyra_memory, ask, fetched>>

\* await saveMemory(...) resolves or rejects, then res.json({ reply }).  The
\* result of the insert is not looked at: an error result is dropped.
\* Each insert statement is stamped with its own time: the clock moves on
\* between two statements.
ChatSaveMemoryDone(r) ==
  /\ req[r].pc = "saveMemory"
  /\ LET q == req[r]
     IN  \/ /\ store' = store \o saveMemoryRows(q.user, q.message, q.reply, clock)
            /\ clock' = clock + 1
            /\ req' = [req EXCEPT ![r] = [ChatAfterSave(q, "ok") EXCEPT !.stamp = clock]]
         \/ /\ req' = [req EXCEPT ![r] = ChatAfterSave(q, "error")]
            /\ UNCHANGED <<store, clock>>
         \/ /\ req' = [req EXCEPT ![r] = ChatAfterSave(q, "raise")]
            /\ UNCHANGED <<store, clock>>
  /\ UNCHANGED <<kyra_memory, ask, fetched>>

\* ------------------------------------------------------------ routes/scan
\* The instruction wrapped around the excerpt.
AnalysisPrompt(siteText) ==
  <<"Analyze this website like a mentor.\nList problems, UX issues, SEO risks, and improvements:\n\n">>
    \o siteText

\* Handler entry: validate and issue the page fetch.
ScanStart(r, b) ==
  /\ Arrives(r)
  /\ LET q == [req[r] EXCEPT !.kind = "scan", !.body = b]
     IN  IF Falsy(b.url)
         THEN req' = [req EXCEPT ![r] = Send(q, UrlRequired)]
         ELSE req' = [req EXCEPT ![r] =
                        [q EXCEPT !.pc = "fetchWebsite", !.calls = @ \o <<"fetch">>]]
  /\ UNCHANGED <<store, clock, kyra_memory, ask, fetched>>

\* Mutant of ScanFetchDone: the analysis prompt is given Mohit's memory window.
ScanFetchDone_withMemory(r) ==
  /\ req[r].pc = "fetchWebsite"
  /\ \/ \E page \in Pages : \E data \in SelectNewest(store, <<"Mohit">>) :
          req' = [req EXCEPT ![r] =
                    [@ EXCEPT !.fetchOut = "ok", !.user = <<"Mohit">>,
                              !.message = AnalysisPrompt(fetchWebsite(page)),
                              !.messages = askKyra(<<"Mohit">>, AnalysisPrompt(fetchWebsite(page)),
                                                   Project(store, getMemoryRows(data))),
                              !.pc = "askKyra", !.calls = @ \o <<"completion">>]]
     \/ req' = [req EXCEPT ![r] = Send([req[r] EXCEPT !.fetchOut = "raise"], ScanFailed)]
  /\ UNCHANGED <<store, clock, kyra_memory, ask, fetched>>

\* await fetchWebsite(url) resolves or rejects; then askKyra("Mohit", ..., [])
\* up to its await.
ScanFetchDone(r) ==
  /\ req[r].pc = "fetchWebsite"
  /\ \/ \E page \in Pages :
          req' = [req EXCEPT ![r] =
                    [@ EXCEPT !.fetchOut = "ok", !.user = <<"Mohit">>,
                              !.message = AnalysisPrompt(fetchWebsite(page)),
                              !.messages = askKyra(<<"Mohit">>, AnalysisPrompt(fetchWebsite(page)), <<>>),
                              !.pc = "askKyra", !.calls = @ \o <<"completion">>]]
     \/ req' = [req EXCEPT ![r] = Send([req[r] EXCEPT !.fetchOut = "raise"], ScanFailed)]
  /\ UNCHANGED <<store, clock, kyra_memory, ask, fetched>>

\* await askKyra(...) resolves or rejects, then res.json({ analysis }).
ScanAskKyraDone(r) ==
  /\ req[r].pc = "askKyra"
  /\ req[r].kind = "scan"
  /\ \E res \in ApiResults :
       LET q == [req[r] EXCEPT !.apiOut = ApiOut(res)]
       IN  IF askKyraRaises(res)
           THEN req' = [req EXCEPT ![r] = Send(q, ScanFailed)]
           ELSE req' = [req EXCEPT ![r] =
                          Send([q EXCEPT !.reply = askKyraReturn(res)], ScanReply(askKyraReturn(res)))]
  /\ UNCHANGED <<store, clock, kyra_memory, ask, fetched>>

\* ------------------------------------------------- single-file POST /kyra
KYRA_SYSTEM ==
  <<"\nYou are Kyra, a friendly, intelligent AI assistant for Mohit.\n...Rules:\n- Never access systems yourself\n- Never claim real-world control\n- If info is missing, ask Mohit clearly\n">>

Placeholder == <<"Kyra is thinking...">>

\* data.choices?.[0]?.message?.content || "Kyra is thinking..."
KyraReply(choices) ==
  IF Len(choices) = 0 THEN Placeholder
  ELSE IF Falsy(choices[1].message.content) THEN Placeholder
  ELSE choices[1].message.content

\* Handler entry: validate and issue the fetch to the completion API.
KyraStart(r, b) ==
  /\ Arrives(r)
  /\ LET q == [req[r] EXCEPT !.kind = "kyra", !.body = b]
     IN  IF Falsy(b.message)
         THEN req' = [req EXCEPT ![r] = Send(q, KyraNoMessage)]
         ELSE req' = [req EXCEPT ![r] =
                        [q EXCEPT !.message = b.message,
                                  !.messages = << [role |-> "system", content |-> KYRA_SYSTEM],
                                                  [role |-> "user", content |-> b.message] >>,
                                  !.pc = "fetch", !.calls = @ \o <<"completion">>]]
  /\ UNCHANGED <<store, clock, kyra_memory, ask, fetched>>

\* await fetch(...) resolves (any HTTP status) or rejects.
KyraFetchDone(r) ==
  /\ req[r].pc = "fetch"
  /\ \/ req' = [req EXCEPT ![r] = [@ EXCEPT !.pc = "json"]]
     \/ req' = [req EXCEPT ![r] = Send([@ EXCEPT !.apiOut = "raised"], KyraFailed)]
  /\ UNCHANGED <<store, clock, kyra_memory, ask, fetched>>

\* await aiResponse.json() resolves or rejects (body not JSON); then the reply
\* is taken and the insert into kyra_memory is issued.
KyraJsonDone(r) ==
  /\ req[r].pc = "json"
  /\ \/ \E ch \in ChoiceLists :
          req' = [req EXCEPT ![r] =
                    [Returned(@) EXCEPT !.apiOut = ApiOut([raised |-> FALSE, choices |-> ch]),
                                        !.reply = KyraReply(ch),
                                        !.pc = "insert", !.calls = @ \o <<"insert">>]]
     \/ req' = [req EXCEPT ![r] = Send([@ EXCEPT !.apiOut = "raised"], KyraFailed)]
  /\ UNCHANGED <<store, clock, kyra_memory, ask, fetched>>

\* await supabase.from("kyra_memory").insert(...) resolves or rejects, then
\* res.json({ reply }).
KyraInsertDone(r) ==
  /\ req[r].pc = "insert"
  /\ LET q == req[r]
     IN  \/ /\ kyra_memory' = Append(kyra_memory,
                                     [user_name |-> <<"Mohit">>, summary |-> Slice(q.reply, SummaryLen)])
            /\ req' = [req EXCEPT ![r] = Send([q EXCEPT !.saveOut = "ok"], ChatReply(q.reply))]
         \/ /\ req' = [req EXCEPT ![r] = Send([q EXCEPT !.saveOut = "error"], ChatReply(q.reply))]
            /\ UNCHANGED kyra_memory
         \/ /\ req' = [req EXCEPT ![r] = Send([q EXCEPT !.saveOut = "raise"], KyraFailed)]
            /\ UNCHANGED kyra_memory
  /\ UNCHANGED <<store, clock, ask, fetched>>

\* ------------------------------------------------------------ the system
NoFetch == [page |-> <<>>, fetches |-> 0, text |-> <<>>, again |-> <<>>]

NoAsk == [variant |-> "none", user |-> Undefined, message |-> Undefined,
          memory |-> <<>>, messages |-> <<>>]

HistMessage(k) == <<"hist", ToString(k)>>
HistReply(k) == <<"re", ToString(k)>>

RECURSIVE History(_)
\* The store after the completed chat exchanges us[1], us[2], ... of earlier
\* requests, each written by saveMemory at its own time.
History(us) ==
  IF us = <<>> THEN <<>>
  ELSE LET k == Len(us)
       IN  History(SubSeq(us, 1, k - 1))
             \o saveMemoryRows(us[k], HistMessage(k), HistReply(k), k)

\* Who spoke in the earlier exchanges: the default user, with at most one
\* exchange of the other user among them.
Histories ==
  UNION { {[i \in 1..h |-> IF i = p THEN OtherUser ELSE DefaultUser] : p \in 0..h} : h \in 0..MaxHist }

Init ==
  /\ \E us \in Histories :
       /\ store = History(us)
       /\ clock = Len(us) + 1
  /\ kyra_memory = <<>>
  /\ req = [r \in Requests |-> IdleReq]
  /\ ask = NoAsk
  /\ fetched = NoFetch

Next ==
  \E r \in Requests :
    \/ \E b \in ChatBodies : ChatStart(r, b)
    \/ ChatGetMemoryDone(r)
    \/ ChatAskKyraDone(r)
    \/ ChatSaveMemoryDone(r)
    \/ \E b \in ScanBodies : ScanStart(r, b)
    \/ ScanFetchDone(r)
    \/ ScanAskKyraDone(r)
    \/ \E b \in KyraBodies : KyraStart(r, b)
    \/ KyraFetchDone(r)
    \/ KyraJsonDone(r)
    \/ KyraInsertDone(r)

Spec == Init /\ [][Next]_vars

\* A pending external call of a chat or scan request returns or raises.
Returns(r) ==
  \/ ChatGetMemoryDone(r)
  \/ ChatAskKyraDone(r)
  \/ ChatSaveMemoryDone(r)
  \/ ScanFetchDone(r)
  \/ ScanAskKyraDone(r)

\* Earlier exchanges in the store at the start of SpecLive.
MaxLiveHist == 1

InitLive == Init /\ Len(store) <= 2 * MaxLiveHist

\* The system when every external call of a chat or scan request eventually
\* returns or raises.
SpecLive == InitLive /\ [][Next]_vars /\ \A r \in Requests : WF_vars(Returns(r))

\* ------------------------------------- the askKyra variants, called directly
MaxWindow == 2

Turns == {[role |-> ro, content |-> c] : ro \in {"user", "assistant"}, c \in {<<"m1">>, <<"r1">>}}
Windows == UNION {[1..n -> Turns] : n \in 0..MaxWindow}
AskMessages == {<<"m1">>, <<"m2">>}

\* askKyra of the routes' services/openai.js builds its messages.
AskSecond(user, message, memory) ==
  /\ ask' = [variant |-> "second", user |-> user, message |-> message,
             memory |-> memory, messages |-> askKyra(user, message, memory)]
  /\ UNCHANGED <<store, clock, kyra_memory, req, fetched>>

\* askKyra of the first services/openai.js builds its messages.
AskFirst(user, message, memory) ==
  /\ ask' = [variant |-> "first", user |-> user, message |-> message,
             memory |-> memory, messages |-> askKyraFirst(user, message, memory)]
  /\ UNCHANGED <<store, clock, kyra_memory, req, fetched>>

InitAsk ==
  /\ store = <<>>
  /\ clock = 1
  /\ kyra_memory = <<>>
  /\ req = [r \in Requests |-> IdleReq]
  /\ ask = NoAsk
  /\ fetched = NoFetch

NextAsk ==
  \E user \in Users : \E message \in AskMessages : \E memory \in Windows :
    \/ AskSecond(user, message, memory)
    \/ AskFirst(user, message, memory)

SpecAsk == InitAsk /\ [][NextAsk]_vars

\* ------------------------------------------- fetchWebsite, called directly
\* Longest of the short pages, which are all the texts over three characters.
MaxPage == 4

PageChars == {"a", " ", "\n"}
ShortPages == UNION {[1..n -> PageChars] : n \in 0..MaxPage}

\* A long page: words of two letters, a single newline first and then runs of
\* a space and a newline between them.
LongPage(n) == [i \in 1..n |-> IF i % 4 = 0 THEN " " ELSE IF i % 4 = 1 THEN "\n" ELSE "a"]

\* A page of n letters without whitespace.
LetterPage(n) == [i \in 1..n |-> "a"]

\* Pages whose text is around and beyond the excerpt length, before and
\* after the whitespace is collapsed.
LongPages ==
  {LongPage(n) : n \in (ExcerptLen - 1)..(ExcerptLen + 1)}
    \cup {LongPage(n) : n \in (ExcerptLen + 1328)..(ExcerptLen + 1340)}
    \cup {LetterPage(n) : n \in (ExcerptLen - 1)..(ExcerptLen + 1)}

\* fetchWebsite(url) where the url serves the page.
Fetch(page) ==
  /\ fetched.fetches = 0
  /\ fetched' = [page |-> page, fetches |-> 1, text |-> fetchWebsite(page), again |-> <<>>]
  /\ UNCHANGED <<store, clock, kyra_memory, req, ask>>

\* fetchWebsite(url) once more, the url serving the same page.
FetchAgain ==
  /\ fetched.fetches = 1
  /\ fetched' = [fetched EXCEPT !.fetches = 2, !.again = fetchWebsite(fetched.page)]
  /\ UNCHANGED <<store, clock, kyra_memory, req, ask>>

InitFetch == InitAsk

NextFetch ==
  \/ \E page \in ShortPages \cup LongPages : Fetch(page)
  \/ FetchAgain

SpecFetch == InitFetch /\ [][NextFetch]_vars

\* ================================================================ claims
IsChat(q) == q.kind = "chat"
\* The completion call of a chat request is in flight, issued after a query
\* that returned rows.
Asking(q) == IsChat(q) /\ q.pc = "askKyra" /\ q.memOut = "data"

\* created_at never decreases along the rows idx
OldestFirst(idx) ==
  \A i, j \in 1..Len(idx) : i < j => store[idx[i]].created_at <= store[idx[j]].created_at

\* C1: a chat request with a non-empty message whose retrieval, completion and
\* persistence all succeed ends with 200 {reply}, and the messages passed to
\* the completion API are one system message first, then the retrieved memory
\* window (at most 8 messages, oldest first by creation time), then one user
\* message holding the new input last.
C1_PromptAndReply ==
  \A r \in Requests :
    LET q == req[r]
        n == Len(q.messages)
    IN  /\ Asking(q) =>
             /\ n = Len(q.memory) + 2
             /\ Len(q.memory) <= 8
             /\ q.messages[1].role = "system"
             /\ \A i \in 2..n : q.messages[i].role # "system"
             /\ SubSeq(q.messages, 2, n - 1) = q.memory
             /\ q.memory = Project(store, q.sel)
             /\ OldestFirst(q.sel)
             /\ q.messages[n] = [role |-> "user", content |-> q.body.message]
        /\ ( /\ IsChat(q) /\ q.pc = "done"
             /\ q.memOut = "data" /\ q.apiOut = "ok" /\ q.saveOut = "ok" ) =>
             /\ q.reply \in Replies
             /\ q.resp = << [status |-> 200, body |-> [reply |-> q.reply]] >>

\* C1 witness: one chat request has ended after three successful steps, and
\* the completion call of another is in flight with a full window.
C1_Witness ==
  /\ \E r \in Requests :
       /\ IsChat(req[r]) /\ req[r].pc = "done" /\ req[r].saveOut = "ok"
       /\ req[r].memOut = "data" /\ req[r].apiOut = "ok"
  /\ \E r \in Requests : Asking(req[r]) /\ Len(req[r].memory) = 8

\* The user's rows among the first n rows of the store that have fewer than k
\* later rows of the same user: the k most recently created.
MostRecent(n, user, k) ==
  {i \in UserRows(store, n, user) :
     Cardinality({j \in UserRows(store, n, user) : j > i}) < k}

\* C2: getMemory(user) returns the min(8, n) most recently created turns of
\* the user, n being the number of the user's stored turns, oldest first by
\* creation time: exactly 8 when n > 8, and the empty list, not an error, when
\* n = 0.
C2_GetMemoryWindow ==
  \A r \in Requests :
    LET q == req[r]
        n == Cardinality(UserRows(store, q.seen, q.user))
        k == IF n > 8 THEN 8 ELSE n
    IN  /\ Asking(q) =>
             /\ Len(q.sel) = k
             /\ {q.sel[i] : i \in 1..Len(q.sel)} = MostRecent(q.seen, q.user, k)
             /\ Len(q.memory) = k
             /\ \A i \in 1..k :
                  /\ q.memory[i].role = store[q.sel[i]].role
                  /\ q.memory[i].content = store[q.sel[i]].content
             /\ OldestFirst(q.sel)
        /\ (IsChat(q) /\ q.memOut = "data" /\ q.apiOut = "none") => q.pc = "askKyra"

\* C2 witness: a query that returned rows for a user with more than 8 turns.
C2_Witness ==
  \E r \in Requests :
    /\ Asking(req[r])
    /\ Cardinality(UserRows(store, req[r].seen, req[r].user)) > 8
    /\ Len(req[r].memory) = 8

\* C3: the window retrieved for a user presents turns in strict creation
\* order: within each exchange the user turn immediately precedes its
\* assistant reply, so the window alternates user/assistant starting with a
\* user turn, although both turns of an exchange carry the same creation time.
C3_StrictCreationOrder ==
  \A r \in Requests :
    LET q == req[r]
    IN  Asking(q) =>
          /\ \A i \in 1..(Len(q.sel) - 1) : q.sel[i] < q.sel[i + 1]
          /\ \A i \in 1..Len(q.memory) :
               q.memory[i].role = (IF i % 2 = 1 THEN "user" ELSE "assistant")

\* C4: a chat request whose message is missing or empty ends with 400
\* {error: "Message required"}, and a scan request whose url is missing ends
\* with 400 {error: "URL required"}, in every state of the store and of the
\* other requests.
C4_ValidationErrors ==
  \A r \in Requests :
    LET q == req[r]
    IN  /\ (IsChat(q) /\ q.body.message \in {Undefined, <<>>}) =>
             /\ q.pc = "done"
             /\ q.resp = << [status |-> 400, body |-> [error |-> "Message required"]] >>
        /\ (q.kind = "scan" /\ q.body.url \in {Undefined, <<>>}) =>
             /\ q.pc = "done"
             /\ q.resp = << [status |-> 400, body |-> [error |-> "URL required"]] >>

\* C4 witness: a chat request with an empty message and a scan request without
\* url have both been answered, with turns in the store.
C4_Witness ==
  /\ store # <<>>
  /\ \E r \in Requests : IsChat(req[r]) /\ req[r].body.message = <<>> /\ req[r].resp # <<>>
  /\ \E r \in Requests : req[r].kind = "scan" /\ req[r].body.url = Undefined /\ req[r].resp # <<>>

\* C5: in a chat request, if the completion succeeded and the persist step
\* then fails (error result, or the store call raises), the request still ends
\* with 200 and the completion's reply; no 500 is returned.
C5_PersistFailureNonFatal ==
  \A r \in Requests :
    LET q == req[r]
    IN  ( /\ IsChat(q) /\ q.pc = "done"
          /\ q.apiOut = "ok" /\ q.saveOut \in {"error", "raise"} ) =>
          q.resp = << [status |-> 200, body |-> [reply |-> q.reply]] >>

\* C6: if the completion call raises, a chat request ends with 500 {error:
\* "Kyra thinking failed"} and a scan request with 500 {error: "Website scan
\* failed"}; the chat request issues no insert and persists no turn.
C6_CompletionTransportFailure ==
  \A r \in Requests :
    LET q == req[r]
    IN  /\ (IsChat(q) /\ q.apiOut = "raised") =>
             /\ q.pc = "done"
             /\ q.resp = << [status |-> 500, body |-> [error |-> "Kyra thinking failed"]] >>
             /\ q.saveOut = "none"
             /\ \A i \in 1..Len(q.calls) : q.calls[i] # "insert"
        /\ (q.kind = "scan" /\ q.apiOut = "raised") =>
             /\ q.pc = "done"
             /\ q.resp = << [status |-> 500, body |-> [error |-> "Website scan failed"]] >>

\* C6 witness: a chat request and a scan request whose completion call raised.
C6_Witness ==
  /\ \E r \in Requests : IsChat(req[r]) /\ req[r].apiOut = "raised" /\ req[r].resp # <<>>
  /\ \E r \in Requests : req[r].kind = "scan" /\ req[r].apiOut = "raised" /\ req[r].resp # <<>>

\* C7: every response of the message endpoint, /chat and /kyra alike, is 200
\* {reply}, 400 {error: "Message required"} or 500 {error: "Kyra thinking
\* failed"}.
C7_MessageEndpointShapes ==
  \A r \in Requests :
    LET q == req[r]
    IN  (q.kind \in {"chat", "kyra"}) =>
          \A i \in 1..Len(q.resp) :
            \/ q.resp[i].status = 200 /\ DOMAIN q.resp[i].body = {"reply"}
            \/ q.resp[i] = [status |-> 400, body |-> [error |-> "Message required"]]
            \/ q.resp[i] = [status |-> 500, body |-> [error |-> "Kyra thinking failed"]]

\* The user a chat body is taken to come from.
BodyUser(b) == IF b.user = Undefined THEN <<"Mohit">> ELSE b.user

\* The number of stored turns of a user.
Turns_of(st, user) == Cardinality(UserRows(st, Len(st), user))

\* C8: each successful saveMemory(user, input, reply) appends exactly the two
\* turns (user, input) and (assistant, reply) of that user after the turns
\* already stored, which stay as they were; the user's history grows by two
\* and nothing else changes the store.
C8_SaveAppendsTwoTurns ==
  [][ /\ \A r \in Requests :
           (req[r].pc = "saveMemory" /\ req'[r].saveOut = "ok") =>
             LET u == BodyUser(req[r].body)
             IN  /\ store' = store \o
                       << [user |-> u, role |-> "user",
                           content |-> req[r].body.message, created_at |-> clock],
                          [user |-> u, role |-> "assistant",
                           content |-> req[r].reply, created_at |-> clock] >>
                 /\ Turns_of(store', u) = Turns_of(store, u) + 2
      /\ store' # store =>
           \E r \in Requests : req[r].pc = "saveMemory" /\ req'[r].saveOut = "ok"
    ]_vars

\* C8 witness: a chat exchange has been saved after earlier turns of its user.
C8_Witness ==
  \E r \in Requests :
    /\ IsChat(req[r]) /\ req[r].saveOut = "ok"
    /\ Turns_of(store, BodyUser(req[r].body)) > 2

\* C9: when the completion call returns a response without choices, or with a
\* first choice without content, the chat or scan request ends with 200 and
\* not 500 (a failing persist step aside).
C9_MalformedCompletionDegrades ==
  \A r \in Requests :
    LET q == req[r]
    IN  ( /\ q.kind \in {"chat", "scan"} /\ q.pc = "done"
          /\ q.apiOut \in {"nochoices", "nocontent"} /\ q.saveOut # "raise" ) =>
          \A i \in 1..Len(q.resp) : q.resp[i].status = 200

\* C10: every turn of the memory window is passed to the completion API as one
\* message with the turn's role and content, in the same position, by both
\* askKyra variants.
C10_WindowPassedVerbatim ==
  ask.variant # "none" =>
    /\ Len(ask.messages) = Len(ask.memory) + 2
    /\ \A i \in 1..Len(ask.memory) :
         /\ ask.messages[i + 1].role = ask.memory[i].role
         /\ ask.messages[i + 1].content = ask.memory[i].content

\* C11: when the insert of saveMemory fails with an error result (write
\* rejected, store unreachable), saveMemory reports the failure to its caller,
\* by a failure result or by raising, and does not complete as after a
\* successful write.
C11_SaveFailureReported ==
  \A r \in Requests :
    LET q == req[r]
    IN  (IsChat(q) /\ q.saveOut = "error") => q.saved \in {"failure", "rejected"}

\* C12: in a chat request, if memory retrieval fails (error result without
\* data, or the query raises), the request ends with 500 {error: "Kyra
\* thinking failed"} and issues no completion call.
C12_RetrievalFailureIs500 ==
  \A r \in Requests :
    LET q == req[r]
    IN  (IsChat(q) /\ q.memOut \in {"error", "raise"}) =>
          /\ q.pc = "done"
          /\ q.resp = << [status |-> 500, body |-> [error |-> "Kyra thinking failed"]] >>
          /\ \A i \in 1..Len(q.calls) : q.calls[i] # "completion"

IsPrefix(a, b) == Len(a) <= Len(b) /\ a = SubSeq(b, 1, Len(a))

Has200(q) == \E i \in 1..Len(q.resp) : q.resp[i].status = 200

\* C13: a chat request issues its calls only in the order query, completion,
\* insert, after validation: the completion call only after the query
\* returned, the insert only after the completion returned a reply, and 200
\* only after the insert finished; a scan request issues page fetch, then
\* completion, and answers 200 only after the completion returned.
C13_StepOrder ==
  \A r \in Requests :
    LET q == req[r]
        n == Len(q.calls)
    IN  /\ IsChat(q) =>
             /\ IsPrefix(q.calls, <<"select", "completion", "insert">>)
             /\ n >= 1 => q.body.message \notin {Undefined, <<>>}
             /\ n >= 2 => q.memOut \in {"data", "error"}
             /\ n >= 3 => q.apiOut \in {"ok", "nocontent"}
             /\ q.pc = "getMemory" => n = 1 /\ q.memOut = "none"
             /\ q.pc = "askKyra" => n = 2 /\ q.apiOut = "none"
             /\ q.pc = "saveMemory" => n = 3 /\ q.saveOut = "none" /\ q.resp = <<>>
             /\ Has200(q) => n = 3 /\ q.saveOut \in {"ok", "error"}
        /\ q.kind = "scan" =>
             /\ IsPrefix(q.calls, <<"fetch", "completion">>)
             /\ n >= 1 => q.body.url \notin {Undefined, <<>>}
             /\ n >= 2 => q.fetchOut = "ok"
             /\ q.pc = "fetchWebsite" => n = 1 /\ q.fetchOut = "none"
             /\ q.pc = "askKyra" => n = 2 /\ q.apiOut = "none" /\ q.resp = <<>>
             /\ Has200(q) => n = 2 /\ q.apiOut \in {"ok", "nocontent"}

\* C13 witness: a chat request and a scan request have both been answered 200.
C13_Witness ==
  /\ \E r \in Requests : IsChat(req[r]) /\ Has200(req[r]) /\ req[r].saveOut = "ok"
  /\ \E r \in Requests : req[r].kind = "scan" /\ Has200(req[r])

ChatOrScan(q) == q.kind \in {"chat", "scan"}

\* C14: every chat or scan request eventually reaches one terminal state,
\* responded (200) or failed (400 or 500), and sends exactly one response,
\* when each external call it issues eventually returns or raises; a request
\* that has ended stays as it is.
C14_ExactlyOneResponse ==
  /\ [](\A r \in Requests :
          ChatOrScan(req[r]) =>
            /\ Len(req[r].resp) <= 1
            /\ req[r].pc = "done" <=> Len(req[r].resp) = 1
            /\ \A i \in 1..Len(req[r].resp) : req[r].resp[i].status \in {200, 400, 500})
  /\ [][\A r \in Requests : req[r].pc = "done" => req'[r] = req[r]]_vars
  /\ \A r \in Requests : ChatOrScan(req[r]) ~> (req[r].pc = "done" /\ Len(req[r].resp) = 1)

\* C14 witness: a chat request and a scan request have ended, one of them
\* after a collaborator raised.
C14_Witness ==
  /\ \E r \in Requests : IsChat(req[r]) /\ req[r].pc = "done" /\ req[r].memOut = "raise"
  /\ \E r \in Requests : req[r].kind = "scan" /\ req[r].pc = "done" /\ Has200(req[r])

\* C15: a scan request never reads from and never writes to the conversation
\* store: it issues no query and no insert, the messages it sends to the
\* completion API are exactly [system, user] with no memory window, and no
\* step of a scan request, successful or failed, changes the store.
C15_ScanLeavesStoreAlone ==
  /\ [](\A r \in Requests :
          LET q == req[r]
          IN  q.kind = "scan" =>
                /\ \A i \in 1..Len(q.calls) : q.calls[i] \notin {"select", "insert"}
                /\ q.memOut = "none" /\ q.saveOut = "none" /\ q.memory = <<>>
                /\ q.pc = "askKyra" =>
                     /\ Len(q.messages) = 2
                     /\ q.messages[1].role = "system"
                     /\ q.messages[2].role = "user"
                     /\ Head(q.messages[2].content) =
                          "Analyze this website like a mentor.\nList problems, UX issues, SEO risks, and improvements:\n\n")
  /\ [][\A r \in Requests :
          (req'[r].kind = "scan" /\ req'[r] # req[r]) => (store' = store /\ clock' = clock)]_vars

\* C15 witness: a scan request has been answered 200 while the store holds
\* turns of the default user.
C15_Witness ==
  \E r \in Requests :
    /\ req[r].kind = "scan" /\ Has200(req[r])
    /\ UserRows(store, Len(store), <<"Mohit">>) # {}

\* How many times the call c was issued by the request q.
Issued(q, c) == Cardinality({i \in 1..Len(q.calls) : q.calls[i] = c})

\* C16: no collaborator is called more than once per request: a chat request
\* issues at most one query, one completion call and one insert, a scan
\* request at most one page fetch and one completion call, and a call that
\* failed is not issued again.
C16_SingleAttempt ==
  \A r \in Requests :
    LET q == req[r]
    IN  /\ \A c \in {"select", "completion", "insert", "fetch"} : Issued(q, c) <= 1
        /\ IsChat(q) => \A i \in 1..Len(q.calls) : q.calls[i] \in {"select", "completion", "insert"}
        /\ q.kind = "scan" => \A i \in 1..Len(q.calls) : q.calls[i] \in {"fetch", "completion"}
        /\ q.memOut \in {"error", "raise"} => Issued(q, "select") = 1
        /\ q.fetchOut = "raise" => Issued(q, "fetch") = 1 /\ q.pc = "done"
        /\ q.apiOut \in {"raised", "nochoices"} => Issued(q, "completion") = 1
        /\ (ChatOrScan(q) /\ q.apiOut \in {"raised", "nochoices"}) => q.pc = "done"
        /\ q.saveOut \in {"error", "raise"} => Issued(q, "insert") = 1 /\ q.pc = "done"

\* C16 witness: a chat request whose query raised and a scan request whose
\* page fetch raised have both ended.
C16_Witness ==
  /\ \E r \in Requests : IsChat(req[r]) /\ req[r].memOut = "raise" /\ req[r].pc = "done"
  /\ \E r \in Requests : req[r].kind = "scan" /\ req[r].fetchOut = "raise" /\ req[r].pc = "done"

IsWs(c) == c \in {" ", "\n", "\t"}
NotWs(c) == ~IsWs(c)

\* The whitespace runs of the text t: the positions where one starts.
RunStarts(t) == {i \in 1..Len(t) : IsWs(t[i]) /\ (i = 1 \/ ~IsWs(t[i - 1]))}

\* C17: fetchWebsite returns the body text with every maximal run of
\* whitespace replaced by one space, cut to its first 4000 characters: the
\* result has at most 4000 characters, no two adjacent whitespace characters
\* and no whitespace but the space, keeps the other characters in order (all
\* of them, with one space per run, when nothing is cut), and is the same for
\* a second fetch of the same page.
C17_ExcerptNormalised ==
  fetched.fetches >= 1 =>
    LET t == fetched.text
        p == fetched.page
        whole == Cardinality(RunStarts(p)) + Len(SelectSeq(p, NotWs))
    IN  /\ Len(t) <= 4000
        /\ \A i \in 1..Len(t) : IsWs(t[i]) => t[i] = " "
        /\ \A i \in 1..(Len(t) - 1) : ~(IsWs(t[i]) /\ IsWs(t[i + 1]))
        /\ IsPrefix(SelectSeq(t, NotWs), SelectSeq(p, NotWs))
        /\ Len(t) = (IF whole > 4000 THEN 4000 ELSE whole)
        /\ whole <= 4000 =>
             /\ SelectSeq(t, NotWs) = SelectSeq(p, NotWs)
             /\ Cardinality(RunStarts(t)) = Cardinality(RunStarts(p))
             /\ (t # <<>> => (IsWs(t[1]) <=> IsWs(p[1])))
        /\ fetched.fetches = 2 => fetched.again = t

\* C17 witness: a page fetched twice whose text has runs of two whitespace
\* characters and is longer than 4000 characters after they are collapsed.
C17_Witness ==
  /\ fetched.fetches = 2
  /\ Len(fetched.text) = 4000
  /\ Cardinality(RunStarts(fetched.page)) + Len(SelectSeq(fetched.page, NotWs)) > 4000
  /\ \E i \in 1..(Len(fetched.page) - 1) : IsWs(fetched.page[i]) /\ IsWs(fetched.page[i + 1])

\* The handler of the chat request q is between its validation and its
\* response.
ChatRunning(q) == IsChat(q) /\ q.pc \in {"getMemory", "askKyra", "saveMemory"}

\* The rows of the user u and what is in them.
RowsOf(st, u) == {i \in 1..Len(st) : st[i].user = u}

\* C18: the memory window of a chat request of user u holds only turns stored
\* for u; no step of a chat request of another user changes the turns of u
\* or the window a query for u returns, and what a request stores is stored
\* for its own user; a request without a user field runs as the default user
\* "Mohit".
C18_UserIsolation ==
  /\ [](\A r \in Requests :
          LET q == req[r]
          IN  ChatRunning(q) =>
                /\ q.user = (IF q.body.user = Undefined THEN <<"Mohit">> ELSE q.body.user)
                /\ Asking(q) =>
                     /\ \A i \in 1..Len(q.sel) : store[q.sel[i]].user = q.user
                     /\ q.memory = [i \in 1..Len(q.sel) |->
                                      [role |-> store[q.sel[i]].role, content |-> store[q.sel[i]].content]])
  /\ [][\A r \in Requests :
          (ChatRunning(req[r]) /\ req'[r] # req[r]) =>
             /\ \A u \in Users \ {req[r].user} :
                  /\ RowsOf(store', u) = RowsOf(store, u)
                  /\ \A i \in RowsOf(store, u) : store'[i] = store[i]
                  /\ SelectNewest(store', u) = SelectNewest(store, u)
             /\ \A i \in 1..Len(store') :
                  i > Len(store) => store'[i].user = req[r].user]_vars

\* C18 witness: a request without a user field holds a window of turns while
\* a request of the other user has stored its exchange after one of them.
C18_Witness ==
  \E r, o \in Requests :
    /\ Asking(req[r]) /\ req[r].body.user = Undefined /\ Len(req[r].sel) > 0
    /\ IsChat(req[o]) /\ req[o].body.user = <<"Asha">> /\ req[o].saveOut = "ok"
    /\ \E i \in 1..Len(store) : store[i].user = <<"Asha">> /\ i > req[r].sel[1] /\ i <= req[r].seen

\* The rows k and k + 1 of the store are the exchange of the request q.
Exchange(q, k) ==
  /\ store[k] = [user |-> BodyUser(q.body), role |-> "user",
                 content |-> q.body.message, created_at |-> q.stamp]
  /\ store[k + 1] = [user |-> BodyUser(q.body), role |-> "assistant",
                     content |-> q.reply, created_at |-> q.stamp]

StoredAt(q) == {k \in 1..(Len(store) - 1) : Exchange(q, k)}

\* The rows written at the time the request q was stamped with.
Stamped(q) == {i \in 1..Len(store) : store[i].created_at = q.stamp}

\* The persist step of the chat request q is over.
PersistDone(q) == IsChat(q) /\ q.saveOut # "none"

\* The store is a list of exchanges, each a user turn and then the reply to
\* it, in the strict order of the times they were written at.
PairedStore ==
  /\ Len(store) % 2 = 0
  /\ \A k \in 1..Len(store) :
       k % 2 = 1 =>
         /\ store[k].role = "user" /\ store[k + 1].role = "assistant"
         /\ store[k].user = store[k + 1].user
         /\ store[k].created_at = store[k + 1].created_at
         /\ k + 2 <= Len(store) => store[k].created_at < store[k + 2].created_at

\* C19 as stated: under any interleaving of concurrent chat requests the
\* store is a list of whole exchanges, it holds the two turns, next to each
\* other and no more, of every request whose persist step is over, and the
\* exchange of a request answered 200 before another request was received
\* lies before that request's exchange.
C19_ExchangesStoredTogether ==
  /\ PairedStore
  /\ \A r \in Requests :
       PersistDone(req[r]) =>
         \E k \in StoredAt(req[r]) : Stamped(req[r]) = {k, k + 1}
  /\ \A r \in Requests : \A o \in req[r].after :
       (PersistDone(req[r]) /\ IsChat(req[o]) /\ Has200(req[o])) =>
         \E k \in StoredAt(req[o]) : \E j \in StoredAt(req[r]) : k + 1 < j

\* C19, amended: the store is a list of whole exchanges in the strict order
\* of their times; it holds the two turns, next to each other and no more, of
\* every request whose insert succeeded and no turn of a request whose
\* insert failed or is in flight; the exchange of a request whose insert
\* succeeded before another request was received is in the store from then
\* on and lies before that request's exchange; the store changes only by the
\* exchange of one request at a time, appended whole.
C19_StoredExchangesTogether ==
  /\ [](/\ PairedStore
        /\ \A r \in Requests :
             LET q == req[r]
             IN  /\ (IsChat(q) /\ q.saveOut = "ok") =>
                      \E k \in StoredAt(q) : Stamped(q) = {k, k + 1}
                 /\ q.saveOut # "ok" => (q.stamp = 0 /\ Stamped(q) = {})
                 /\ \A o \in q.after :
                      (IsChat(req[o]) /\ req[o].saveOut = "ok") =>
                        /\ StoredAt(req[o]) # {}
                        /\ q.saveOut = "ok" =>
                             /\ req[o].stamp < q.stamp
                             /\ \E k \in StoredAt(req[o]) : \E j \in StoredAt(q) : k + 1 < j)
  /\ [][store' # store =>
          \E r \in Requests :
            /\ req[r].pc = "saveMemory" /\ req'[r].saveOut = "ok"
            /\ Len(store') = Len(store) + 2
            /\ SubSeq(store', 1, Len(store)) = store
            /\ \A i \in 1..Len(store) : store[i].created_at < req'[r].stamp]_vars

\* C19 witness: two chat requests of one user were in flight together and
\* the one received second stored its exchange first, both after a history
\* of that user.
C19_Witness ==
  /\ \A r \in Requests : IsChat(req[r]) /\ req[r].saveOut = "ok" /\ req[r].after = {}
  /\ BodyUser(req[1].body) = BodyUser(req[2].body)
  /\ req[2].stamp < req[1].stamp
  /\ Len(store) > 4

\* The request q was answered 400.
Has400(q) == \E i \in 1..Len(q.resp) : q.resp[i].status = 400

\* The field of its body a request of the given kind is validated on.
Required(q) == IF q.kind = "scan" THEN q.body.url ELSE q.body.message

\* C20: a chat or scan request answered 400 has called no collaborator: it
\* issued no store query, no page fetch, no completion call and no insert,
\* none of its calls has an outcome, and the step that answers 400 leaves the
\* store as it was; 400 is the answer exactly when the required field is
\* missing or empty.  The same holds of the /kyra endpoint.
C20_RejectedCallsNothing ==
  /\ [](\A r \in Requests :
          LET q == req[r]
          IN  /\ Has400(q) =>
                   /\ q.calls = <<>>
                   /\ q.memOut = "none" /\ q.fetchOut = "none"
                   /\ q.apiOut = "none" /\ q.saveOut = "none"
                   /\ q.stamp = 0
                   /\ q.pc = "done" /\ Len(q.resp) = 1
              /\ (q.kind # "none" /\ Required(q) \in {Undefined, Null, <<>>}) => Has400(q)
              /\ Has400(q) => Required(q) \in {Undefined, Null, <<>>})
  /\ [][\A r \in Requests :
          (Has400(req'[r]) /\ ~Has400(req[r])) =>
             /\ store' = store /\ clock' = clock /\ kyra_memory' = kyra_memory
             /\ req[r].pc = "idle"]_vars

\* C20 witness: a chat request without a message and a scan request without
\* a url were both answered 400 while the store holds turns.
C20_Witness ==
  \E r, o \in Requests :
    /\ req[r].kind = "chat" /\ Has400(req[r])
    /\ req[o].kind = "scan" /\ Has400(req[o])
    /\ Len(store) > 0

====
